---- MODULE Spec2Model ----
(***************************************************************************)
(* Model of the driver store of src/src/stores/driverStore.ts (a zustand   *)
(* store).  A driver record and a document are JavaScript objects: they    *)
(* are modelled as functions from the names of the keys that are present   *)
(* to their values, so that object spread ({...a, ...b}) and absent keys   *)
(* are modelled as the code computes them.  Every call of zustand's set()  *)
(* publishes a snapshot to the subscribed views, so every set() of an      *)
(* operation is one step of the model; an operation runs to completion     *)
(* before the next one starts (the async functions hold no await).         *)
(***************************************************************************)
EXTENDS Integers, Sequences, FiniteSets, TLC

VARIABLES
    drivers,   \* DriverStore.drivers: the sequence of driver records
    loading,   \* DriverStore.loading
    error,     \* DriverStore.error (Null or a message)
    now,       \* the last reading of the system clock (new Date())
    pc,        \* "idle", or the position inside the running operation
    call,      \* the running (or last) operation and its arguments
    ret,       \* the outcome of the last completed operation
    snap,      \* the store as it was when the running (or last) operation was called
    nops       \* number of operations called so far

vars == <<drivers, loading, error, now, pc, call, ret, snap, nops>>

----------------------------------------------------------------------------
(* Bounds of the model *)

MaxOps == 3
MaxDrivers == 2
MaxTime == 2

----------------------------------------------------------------------------
(* JavaScript values *)

Null == "null"
Undefined == "undefined"
EmptyObj == [k \in {} |-> Undefined]

\* {...a, ...b}
Spread(a, b) ==
    [k \in (DOMAIN a) \cup (DOMAIN b) |-> IF k \in DOMAIN b THEN b[k] ELSE a[k]]

\* obj[key], undefined when the key is absent, spread into an object literal:
\* {...obj[key]} is {} when obj[key] is undefined
SpreadOf(obj, key) == IF key \in DOMAIN obj THEN obj[key] ELSE EmptyObj

\* Math.random().toString(36).substr(2, 9): some string of base-36 digits;
\* nothing makes two results differ.  GenIds are the results drawn for the id
\* of a driver (line 83), GenDocIds those drawn for the id of a document
\* (line 139), which no code of the store reads.
GenIds == {"a", "b"}
GenDocIds == {"a"}

\* new Date().toISOString(): the clock never goes back, and may or may not
\* have advanced since the last reading.  An instant is written as a number
\* (toISOString renders instants injectively and in order).
ClockReadings == {t \in {now, now + 1} : t <= MaxTime}

----------------------------------------------------------------------------
(* initialDrivers *)

T0 == 0

Doc1 ==
    [id |-> "doc1", type |-> "license", number |-> "DL123456",
     expiryDate |-> "2025-12-31", issuedDate |-> "2020-01-01",
     status |-> "verified", fileUrl |-> "https://example.com/license.pdf"]

Doc2 ==
    [id |-> "doc2", type |-> "permit", number |-> "P123",
     expiryDate |-> "2024-12-31", issuedDate |-> "2023-01-01",
     status |-> "verified", fileUrl |-> "https://example.com/permit.pdf"]

\* metadata of the seeded driver; the rating 4.8 is written in tenths
SeedMetadata ==
    [totalTrips |-> 150, rating |-> 48, lastActive |-> T0, completedVerification |-> TRUE]

initialDrivers ==
    << [id |-> "1", name |-> "John Doe", phone |-> "+1234567890",
        email |-> "john@example.com", licenseNumber |-> "DL123456",
        vendorId |-> "2", status |-> "active", onboardingStatus |-> "completed",
        documents |-> [license |-> Doc1, permit |-> Doc2],
        createdAt |-> T0, updatedAt |-> T0, metadata |-> SeedMetadata] >>

----------------------------------------------------------------------------
(* Inputs of the operations *)

\* the ids the callers pass: the seeded one and one that addDriver may generate
Ids == {"1", "a"}

\* addDriver's driverData: Omit<Driver, 'id'|'createdAt'|'updatedAt'|'status'|'onboardingStatus'>
PlainDraft ==
    [name |-> "X", phone |-> "+1", email |-> "x@example.com", licenseNumber |-> "DL9",
     vendorId |-> "3", documents |-> EmptyObj,
     metadata |-> [totalTrips |-> 0, rating |-> 0, completedVerification |-> FALSE]]

LoadedDraft ==
    [name |-> "John Doe", phone |-> "+1", email |-> "x@example.com", licenseNumber |-> "DL9",
     vendorId |-> "2", vehicleId |-> "V9", documents |-> [license |-> Doc1],
     metadata |-> SeedMetadata]

DriverDrafts == {PlainDraft, LoadedDraft}

\* updateDriver's updates: Partial<Driver>
DriverUpdates ==
    { [name |-> "X"],
      [id |-> "a"],
      [status |-> "inactive", updatedAt |-> T0] }

\* uploadDocument's document: Omit<DriverDocument, 'id'>
DocumentDrafts ==
    { [type |-> "license", number |-> "DL777", expiryDate |-> "2030-01-01",
       issuedDate |-> "2026-01-01", status |-> "verified",
       fileUrl |-> "https://example.com/new.pdf"],
      [type |-> "insurance", number |-> "I1", expiryDate |-> "2030-01-01",
       issuedDate |-> "2026-01-01", status |-> "pending",
       fileUrl |-> "https://example.com/ins.pdf"] }

\* verifyDocument's documentId: a key of the document map, or the id of a document
DocumentIds == {"license", "a"}

\* verifyDocument's status and comments (comments is optional)
Verdicts == { <<"rejected", "blurred">>, <<"verified", Undefined>> }

VehicleIds == {"V9"}

OnboardingStatuses == {"pending", "completed"}

----------------------------------------------------------------------------
(* Outcomes of an operation *)

Returned(v) == [kind |-> "value", val |-> v]
Resolved == [kind |-> "void"]
Thrown(msg) == [kind |-> "throw", message |-> msg]

Init ==
    /\ drivers = initialDrivers
    /\ loading = FALSE
    /\ error = Null
    /\ now = 1
    /\ pc = "idle"
    /\ call = [op |-> "none", at |-> 1]
    /\ ret = [kind |-> "none"]
    /\ snap = [drivers |-> initialDrivers, loading |-> FALSE, error |-> Null]
    /\ nops = 0

\* A call that starts while another operation is between two of its set()
\* calls, as it could if the bodies awaited something there
CalledWhileRunning(c) ==
    /\ nops < MaxOps
    /\ nops' = nops + 1
    /\ call' = Spread(c, [at |-> now])
    /\ snap' = [drivers |-> drivers, loading |-> loading, error |-> error]

\* An operation is called: no other operation is running.  call.at is the
\* reading of the clock at the call.
Called(c) ==
    /\ pc = "idle"
    /\ nops < MaxOps
    /\ nops' = nops + 1
    /\ call' = Spread(c, [at |-> now])
    /\ snap' = [drivers |-> drivers, loading |-> loading, error |-> error]

----------------------------------------------------------------------------
(* addDriver *)

\* the object literal of lines 81-94
NewDriver(driverData, id, createdAt, updatedAt) ==
    Spread(driverData,
           [id |-> id, status |-> "inactive", onboardingStatus |-> "pending",
            createdAt |-> createdAt, updatedAt |-> updatedAt,
            documents |-> EmptyObj,
            metadata |-> [totalTrips |-> 0, rating |-> 0, completedVerification |-> FALSE]])

\* A call that does not raise the loading flag
AddDriverBeginNoLoading ==
    \E driverData \in DriverDrafts :
        /\ Len(drivers) < MaxDrivers
        /\ Called([op |-> "addDriver", driverData |-> driverData])
        /\ pc' = "addDriver"
        /\ UNCHANGED <<drivers, loading, error, now, ret>>

\* set({ loading: true })
AddDriverBegin ==
    \E driverData \in DriverDrafts :
        /\ Len(drivers) < MaxDrivers
        /\ Called([op |-> "addDriver", driverData |-> driverData])
        /\ loading' = TRUE
        /\ pc' = "addDriver"
        /\ UNCHANGED <<drivers, error, now, ret>>

\* The try block with the new record put first: [newDriver, ...state.drivers]
AddDriverSetPrepends ==
    /\ pc = "addDriver"
    /\ \E id \in GenIds, createdAt \in ClockReadings :
         \E updatedAt \in {t \in {createdAt, createdAt + 1} : t <= MaxTime} :
           LET newDriver == NewDriver(call.driverData, id, createdAt, updatedAt) IN
           /\ drivers' = <<newDriver>> \o drivers
           /\ loading' = FALSE
           /\ now' = updatedAt
           /\ ret' = Returned(newDriver)
    /\ pc' = "idle"
    /\ UNCHANGED <<error, call, snap, nops>>

\* the try block: build newDriver, set(drivers: [...state.drivers, newDriver], loading: false).
\* The clock is read twice, for createdAt and then for updatedAt.  Nothing in
\* the block throws, so the catch block of lines 102-105 never runs.
AddDriverSet ==
    /\ pc = "addDriver"
    /\ \E id \in GenIds, createdAt \in ClockReadings :
         \E updatedAt \in {t \in {createdAt, createdAt + 1} : t <= MaxTime} :
           LET newDriver == NewDriver(call.driverData, id, createdAt, updatedAt) IN
           /\ drivers' = Append(drivers, newDriver)
           /\ loading' = FALSE
           /\ now' = updatedAt
           /\ ret' = Returned(newDriver)
    /\ pc' = "idle"
    /\ UNCHANGED <<error, call, snap, nops>>

----------------------------------------------------------------------------
(* updateDriver *)

Matching(ds, id) == {i \in 1..Len(ds) : ds[i].id = id}

\* The two spreads in the wrong order: { ...updates, ...driver, updatedAt }
UpdatedDriverWrongOrder(driver, updates, t) ==
    Spread(Spread(updates, driver), [updatedAt |-> t])

\* { ...driver, ...updates, updatedAt: new Date().toISOString() }
UpdatedDriver(driver, updates, t) ==
    Spread(Spread(driver, updates), [updatedAt |-> t])

\* A call that also clears the last error: set({ loading: true, error: null })
UpdateDriverBeginClearsError ==
    \E id \in Ids, updates \in DriverUpdates :
        /\ Called([op |-> "updateDriver", id |-> id, updates |-> updates])
        /\ loading' = TRUE
        /\ error' = Null
        /\ pc' = "updateDriver"
        /\ UNCHANGED <<drivers, now, ret>>

\* set({ loading: true })
UpdateDriverBegin ==
    \E id \in Ids, updates \in DriverUpdates :
        /\ Called([op |-> "updateDriver", id |-> id, updates |-> updates])
        /\ loading' = TRUE
        /\ pc' = "updateDriver"
        /\ UNCHANGED <<drivers, error, now, ret>>

\* set(drivers: state.drivers.map(...), loading: false), then the return or the
\* throw of line 128.  The clock is read once for each matching record, in
\* order: the readings up to position k see the clock where it was, the later
\* ones see it advanced.
UpdateDriverSet ==
    /\ pc = "updateDriver"
    /\ LET m == Matching(drivers, call.id)
           last == CHOOSE i \in m : \A j \in m : j <= i
       IN
       \E k \in {0} \cup m :
         LET reading(i) == IF i <= k \/ now + 1 > MaxTime THEN now ELSE now + 1 IN
         /\ (now + 1 > MaxTime) => (k = 0)
         /\ drivers' = [i \in 1..Len(drivers) |->
                          IF i \in m
                          THEN UpdatedDriver(drivers[i], call.updates, reading(i))
                          ELSE drivers[i]]
         /\ loading' = FALSE
         /\ IF m = {}
            THEN /\ now' = now
                 /\ pc' = "updateDriver.catch"
                 /\ ret' = ret
            ELSE /\ now' = reading(last)
                 /\ pc' = "idle"
                 /\ ret' = Returned(drivers'[last])
    /\ UNCHANGED <<error, call, snap, nops>>

\* A catch block that re-raises without recording the message
UpdateDriverCatchSilent ==
    /\ pc = "updateDriver.catch"
    /\ loading' = FALSE
    /\ ret' = Thrown("Driver not found")
    /\ pc' = "idle"
    /\ UNCHANGED <<drivers, error, now, call, snap, nops>>

\* catch: set({ error: 'Failed to update driver', loading: false }); throw error
UpdateDriverCatch ==
    /\ pc = "updateDriver.catch"
    /\ error' = "Failed to update driver"
    /\ loading' = FALSE
    /\ ret' = Thrown("Driver not found")
    /\ pc' = "idle"
    /\ UNCHANGED <<drivers, now, call, snap, nops>>

----------------------------------------------------------------------------
(* uploadDocument *)

\* The draft spread last: { id: documentId, status: 'pending', ...document }
NewDocumentDraftLast(document, documentId) ==
    Spread([id |-> documentId, status |-> "pending"], document)

\* { ...document, id: documentId, status: 'pending' }
NewDocument(document, documentId) ==
    Spread(document, [id |-> documentId, status |-> "pending"])

\* { ...driver, documents: { ...driver.documents, [document.type]: ... }, updatedAt: ... }
WithDocument(driver, document, documentId, t) ==
    Spread(driver,
           [documents |-> Spread(driver.documents,
                                 [k \in {document.type} |-> NewDocument(document, documentId)]),
            updatedAt |-> t])

\* set({ loading: true })
UploadDocumentBegin ==
    \E driverId \in Ids, document \in DocumentDrafts :
        /\ Called([op |-> "uploadDocument", driverId |-> driverId, document |-> document])
        /\ loading' = TRUE
        /\ pc' = "uploadDocument"
        /\ UNCHANGED <<drivers, error, now, ret>>

\* An upload that reports an unknown driverId as updateDriver does
UploadDocumentSetStrict ==
    /\ pc = "uploadDocument"
    /\ Matching(drivers, call.driverId) = {}
    /\ error' = "Failed to upload document"
    /\ loading' = FALSE
    /\ ret' = Thrown("Driver not found")
    /\ pc' = "idle"
    /\ UNCHANGED <<drivers, now, call, snap, nops>>

\* the try block: documentId, set(drivers: state.drivers.map(...), loading: false).
\* The clock is read once for each matching record, as in updateDriver.
\* Nothing in the block throws, so the catch block of lines 161-164 never runs.
UploadDocumentSet ==
    /\ pc = "uploadDocument"
    /\ LET m == Matching(drivers, call.driverId)
           last == CHOOSE i \in m : \A j \in m : j <= i
       IN
       \E documentId \in GenDocIds, k \in {0} \cup m :
         LET reading(i) == IF i <= k \/ now + 1 > MaxTime THEN now ELSE now + 1 IN
         /\ (now + 1 > MaxTime) => (k = 0)
         /\ drivers' = [i \in 1..Len(drivers) |->
                          IF i \in m
                          THEN WithDocument(drivers[i], call.document, documentId, reading(i))
                          ELSE drivers[i]]
         /\ now' = IF m = {} THEN now ELSE reading(last)
    /\ loading' = FALSE
    /\ ret' = Resolved
    /\ pc' = "idle"
    /\ UNCHANGED <<error, call, snap, nops>>

----------------------------------------------------------------------------
(* deleteDriver, getDriver *)

\* The filter with its test inverted: d => d.id === id
RemainingInverted(ds, id) == SelectSeq(ds, LAMBDA d : d.id = id)

\* state.drivers.filter(d => d.id !== id)
Remaining(ds, id) == SelectSeq(ds, LAMBDA d : d.id # id)

deleteDriver ==
    \E id \in Ids :
        /\ Called([op |-> "deleteDriver", id |-> id])
        /\ drivers' = Remaining(drivers, id)
        /\ ret' = Resolved
        /\ UNCHANGED <<loading, error, now, pc>>

\* get().drivers.find(d => d.id === id): the first match, or undefined
getDriver(id) ==
    LET m == Matching(drivers, id) IN
    IF m = {} THEN Undefined ELSE drivers[CHOOSE i \in m : \A j \in m : i <= j]

----------------------------------------------------------------------------
(* verifyDocument *)

\* The entry replaced instead of overlaid: [documentId]: { status, comments }
VerifiedReplacing(d, documentId, status, comments) ==
    Spread(d,
           [documents |->
              Spread(d.documents,
                     [k \in {documentId} |-> [status |-> status, comments |-> comments]])])

\* { ...d, documents: { ...d.documents, [documentId]: { ...d.documents[documentId], status, comments } } }
Verified(d, documentId, status, comments) ==
    Spread(d,
           [documents |->
              Spread(d.documents,
                     [k \in {documentId} |->
                        Spread(SpreadOf(d.documents, documentId),
                               [status |-> status, comments |-> comments])])])

verifyDocument ==
    \E driverId \in Ids, documentId \in DocumentIds, v \in Verdicts :
        /\ Called([op |-> "verifyDocument", driverId |-> driverId,
                   documentId |-> documentId, status |-> v[1], comments |-> v[2]])
        /\ drivers' = [i \in 1..Len(drivers) |->
                         IF drivers[i].id = driverId
                         THEN Verified(drivers[i], documentId, v[1], v[2])
                         ELSE drivers[i]]
        /\ ret' = Resolved
        /\ UNCHANGED <<loading, error, now, pc>>

----------------------------------------------------------------------------
(* assignVehicle, unassignVehicle, updateOnboardingStatus *)

\* An assignment that also refreshes updatedAt: { ...d, vehicleId, updatedAt }
assignVehicleTouching ==
    \E driverId \in Ids, vehicleId \in VehicleIds :
        /\ Called([op |-> "assignVehicle", driverId |-> driverId, vehicleId |-> vehicleId])
        /\ drivers' = [i \in 1..Len(drivers) |->
                         IF drivers[i].id = driverId
                         THEN Spread(drivers[i], [vehicleId |-> vehicleId, updatedAt |-> now])
                         ELSE drivers[i]]
        /\ ret' = Resolved
        /\ UNCHANGED <<loading, error, now, pc>>

\* An assignment that takes the vehicle away from the drivers that hold it
assignVehicleExclusive ==
    \E driverId \in Ids, vehicleId \in VehicleIds :
        /\ Called([op |-> "assignVehicle", driverId |-> driverId, vehicleId |-> vehicleId])
        /\ drivers' = [i \in 1..Len(drivers) |->
                         IF drivers[i].id = driverId
                         THEN Spread(drivers[i], [vehicleId |-> vehicleId])
                         ELSE IF "vehicleId" \in DOMAIN drivers[i]
                                 /\ drivers[i].vehicleId = vehicleId
                              THEN Spread(drivers[i], [vehicleId |-> Undefined])
                              ELSE drivers[i]]
        /\ ret' = Resolved
        /\ UNCHANGED <<loading, error, now, pc>>

\* { ...d, vehicleId }
assignVehicle ==
    \E driverId \in Ids, vehicleId \in VehicleIds :
        /\ Called([op |-> "assignVehicle", driverId |-> driverId, vehicleId |-> vehicleId])
        /\ drivers' = [i \in 1..Len(drivers) |->
                         IF drivers[i].id = driverId
                         THEN Spread(drivers[i], [vehicleId |-> vehicleId])
                         ELSE drivers[i]]
        /\ ret' = Resolved
        /\ UNCHANGED <<loading, error, now, pc>>

\* { ...d, vehicleId: undefined }
unassignVehicle ==
    \E driverId \in Ids :
        /\ Called([op |-> "unassignVehicle", driverId |-> driverId])
        /\ drivers' = [i \in 1..Len(drivers) |->
                         IF drivers[i].id = driverId
                         THEN Spread(drivers[i], [vehicleId |-> Undefined])
                         ELSE drivers[i]]
        /\ ret' = Resolved
        /\ UNCHANGED <<loading, error, now, pc>>

\* A transition table: a completed onboarding is not reopened
updateOnboardingStatusLegal ==
    \E driverId \in Ids, status \in OnboardingStatuses :
        /\ Called([op |-> "updateOnboardingStatus", driverId |-> driverId, status |-> status])
        /\ drivers' = [i \in 1..Len(drivers) |->
                         IF drivers[i].id = driverId
                            /\ drivers[i].onboardingStatus # "completed"
                         THEN Spread(drivers[i], [onboardingStatus |-> status])
                         ELSE drivers[i]]
        /\ ret' = Resolved
        /\ UNCHANGED <<loading, error, now, pc>>

\* { ...d, onboardingStatus: status }
updateOnboardingStatus ==
    \E driverId \in Ids, status \in OnboardingStatuses :
        /\ Called([op |-> "updateOnboardingStatus", driverId |-> driverId, status |-> status])
        /\ drivers' = [i \in 1..Len(drivers) |->
                         IF drivers[i].id = driverId
                         THEN Spread(drivers[i], [onboardingStatus |-> status])
                         ELSE drivers[i]]
        /\ ret' = Resolved
        /\ UNCHANGED <<loading, error, now, pc>>

----------------------------------------------------------------------------
(* Queries: getDriversByVendor, getActiveDrivers, getPendingVerifications *)

\* Only the first match, as find() would give
getDriversByVendorFirst(vendorId) ==
    LET m == {i \in 1..Len(drivers) : drivers[i].vendorId = vendorId} IN
    IF m = {} THEN <<>> ELSE << drivers[CHOOSE i \in m : \A j \in m : i <= j] >>

\* get().drivers.filter(driver => driver.vendorId === vendorId)
getDriversByVendor(vendorId) ==
    SelectSeq(drivers, LAMBDA driver : driver.vendorId = vendorId)

\* get().drivers.filter(driver => driver.status === 'active')
getActiveDrivers ==
    SelectSeq(drivers, LAMBDA driver : driver.status = "active")

\* every() where the code has some(): vacuously true of an empty document map
getPendingVerificationsEvery ==
    SelectSeq(drivers, LAMBDA driver :
        \A k \in DOMAIN driver.documents : driver.documents[k].status = "pending")

\* get().drivers.filter(driver =>
\*     Object.values(driver.documents).some(doc => doc.status === 'pending'))
getPendingVerifications ==
    SelectSeq(drivers, LAMBDA driver :
        \E k \in DOMAIN driver.documents : driver.documents[k].status = "pending")

\* the vendor ids the callers pass
VendorIds == {"2", "3", "9"}

----------------------------------------------------------------------------

Next ==
    \/ AddDriverBegin
    \/ AddDriverSet
    \/ UpdateDriverBegin
    \/ UpdateDriverSet
    \/ UpdateDriverCatch
    \/ UploadDocumentBegin
    \/ UploadDocumentSet
    \/ deleteDriver
    \/ verifyDocument
    \/ assignVehicle
    \/ unassignVehicle
    \/ updateOnboardingStatus

Spec == Init /\ [][Next]_vars

----------------------------------------------------------------------------
(* Properties *)

\* The operation named op has completed and no other was called since
Done(op) == pc = "idle" /\ call.op = op

Positions(ds) == 1..Len(ds)

\* C1: for every draft, addDriver appends exactly one record at the end of
\* the collection and returns it; the record has status 'inactive',
\* onboardingStatus 'pending', an empty document map, metadata with
\* totalTrips 0, rating 0 and completedVerification false, and createdAt
\* equal to updatedAt equal to the current time; the records already in the
\* collection are unchanged.
C1_AddDriverCreatesRecord ==
    Done("addDriver") =>
        /\ Len(drivers) = Len(snap.drivers) + 1
        /\ \A i \in Positions(snap.drivers) : drivers[i] = snap.drivers[i]
        /\ ret = Returned(drivers[Len(drivers)])
        /\ LET r == drivers[Len(drivers)] IN
           /\ r.status = "inactive"
           /\ r.onboardingStatus = "pending"
           /\ DOMAIN r.documents = {}
           /\ r.metadata =
                [totalTrips |-> 0, rating |-> 0, completedVerification |-> FALSE]
           /\ r.createdAt = r.updatedAt
           /\ r.updatedAt = now

\* C2: the id of the record addDriver returns differs from the id of every
\* record already in the collection, and the ids of the records in the
\* collection are pairwise distinct in every reachable state.
C2_IdsPairwiseDistinct ==
    /\ Done("addDriver") =>
          \A i \in Positions(snap.drivers) : snap.drivers[i].id # ret.val.id
    /\ \A i, j \in Positions(drivers) : i # j => drivers[i].id # drivers[j].id

\* C3: updateDriver with an id that is not in the collection raises
\* 'Driver not found' to the caller, sets the error field to a message,
\* leaves loading false, and leaves the collection equal to the snapshot
\* taken before the call.
C3_UpdateUnknownIdFails ==
    (call.op = "updateDriver" /\ Matching(snap.drivers, call.id) = {}) =>
        /\ drivers = snap.drivers
        /\ pc = "idle" =>
             /\ ret = Thrown("Driver not found")
             /\ error # Null
             /\ loading = FALSE

C3_Witness ==
    /\ Done("updateDriver")
    /\ Matching(snap.drivers, call.id) = {}
    /\ snap.error = Null
    /\ ret.kind = "throw"
    /\ Len(drivers) = 2

C4_Matched == Matching(snap.drivers, call.id)

\* C4: for an id present in the collection, updateDriver(id, updates) changes
\* in the matching record only the fields named in updates and updatedAt,
\* leaves every other field of it and every other record unchanged, keeps the
\* record at its position, and returns the updated record.
C4_UpdateChangesOnlyNamedFields ==
    (Done("updateDriver") /\ C4_Matched # {}) =>
        LET named == DOMAIN call.updates \cup {"updatedAt"} IN
        /\ Len(drivers) = Len(snap.drivers)
        /\ \A i \in Positions(snap.drivers) \ C4_Matched : drivers[i] = snap.drivers[i]
        /\ \A i \in C4_Matched :
              /\ DOMAIN drivers[i] = DOMAIN snap.drivers[i] \cup named
              /\ \A f \in DOMAIN snap.drivers[i] \ named :
                    drivers[i][f] = snap.drivers[i][f]
              /\ \A f \in DOMAIN call.updates \ {"updatedAt"} :
                    drivers[i][f] = call.updates[f]
              /\ drivers[i].updatedAt \in call.at..now
        /\ ret.kind = "value"
        /\ \E i \in C4_Matched : ret.val = drivers[i]

C4_Witness ==
    /\ Done("updateDriver")
    /\ call.updates = [name |-> "X"]
    /\ Len(drivers) = 2
    /\ \E i \in C4_Matched :
          /\ snap.drivers[i].name = "John Doe"
          /\ drivers[i].name = "X"
          /\ drivers[i].updatedAt > snap.drivers[i].updatedAt
          /\ ret.val = drivers[i]

\* C5: the id of a record is immutable: from the state in which the record
\* was added or seeded until it is deleted, no store operation changes it.
C5_IdImmutable ==
    IF call.op = "deleteDriver"
    THEN \A i \in Positions(drivers) :
            \E j \in Positions(snap.drivers) : drivers[i] = snap.drivers[j]
    ELSE \A i \in Positions(snap.drivers) :
            i <= Len(drivers) /\ drivers[i].id = snap.drivers[i].id

\* C6: whenever updateDriver, uploadDocument, verifyDocument, assignVehicle,
\* unassignVehicle or updateOnboardingStatus changes a field of a record, it
\* sets the updatedAt of that record to the current time (a reading of the
\* clock taken during the operation) in the same step.
C6_UpdatedAtRefreshed ==
    (pc = "idle" /\ call.op \in {"updateDriver", "uploadDocument", "verifyDocument",
                                   "assignVehicle", "unassignVehicle",
                                   "updateOnboardingStatus"}) =>
        \A i \in Positions(drivers) :
            drivers[i] # snap.drivers[i] => drivers[i].updatedAt \in call.at..now

C7_Kept == {i \in Positions(snap.drivers) : snap.drivers[i].id # call.id}

\* C7: deleteDriver(id) with an id not in the collection leaves the
\* collection, loading and error unchanged and raises nothing; with an id in
\* the collection it removes the records with that id and leaves the others
\* unchanged, in the same relative order.
C7_DeleteRemovesOnlyThatId ==
    Done("deleteDriver") =>
        /\ ret = Resolved
        /\ loading = snap.loading
        /\ error = snap.error
        /\ Len(drivers) = Cardinality(C7_Kept)
        /\ \A i \in C7_Kept :
              drivers[Cardinality({j \in C7_Kept : j <= i})] = snap.drivers[i]
        /\ (C7_Kept = Positions(snap.drivers)) => drivers = snap.drivers

C7_Witness ==
    /\ Done("deleteDriver")
    /\ Len(snap.drivers) = 2
    /\ snap.drivers[1].id = call.id
    /\ Len(drivers) = 1
    /\ drivers[1] = snap.drivers[2]

Uploaded == Matching(snap.drivers, call.driverId)

\* C8: for an existing driver and any document draft, after uploadDocument
\* the driver's document map holds under the key draft.type one entry, the
\* draft with a generated id and status 'pending', whatever was there before;
\* the entries under the other keys and all other drivers are unchanged, and
\* the driver's updatedAt is refreshed.
C8_UploadStoresPendingByType ==
    (Done("uploadDocument") /\ Uploaded # {}) =>
        /\ Len(drivers) = Len(snap.drivers)
        /\ \A i \in Positions(snap.drivers) \ Uploaded : drivers[i] = snap.drivers[i]
        /\ \A i \in Uploaded :
              LET old == snap.drivers[i]
                  new == drivers[i]
                  type == call.document.type
              IN
              /\ DOMAIN new.documents = DOMAIN old.documents \cup {type}
              /\ new.documents[type].status = "pending"
              /\ new.documents[type].id \in GenDocIds
              /\ DOMAIN new.documents[type] = DOMAIN call.document \cup {"id"}
              /\ \A f \in DOMAIN call.document \ {"status"} :
                    new.documents[type][f] = call.document[f]
              /\ \A k \in DOMAIN old.documents \ {type} :
                    new.documents[k] = old.documents[k]
              /\ new.updatedAt \in call.at..now

C8_Witness ==
    /\ Done("uploadDocument")
    /\ call.document.status = "verified"
    /\ \E i \in Uploaded :
          /\ call.document.type \in DOMAIN snap.drivers[i].documents
          /\ "comments" \in DOMAIN snap.drivers[i].documents[call.document.type]
          /\ "permit" \in DOMAIN drivers[i].documents
          /\ drivers[i].documents[call.document.type].status = "pending"

\* C9: uploadDocument with a driverId that is not in the collection leaves
\* the records unchanged, raises nothing and does not set the error field;
\* loading is false afterwards.
C9_UploadUnknownIdSilent ==
    (Done("uploadDocument") /\ Uploaded = {}) =>
        /\ drivers = snap.drivers
        /\ ret = Resolved
        /\ error = snap.error
        /\ loading = FALSE

C9_Witness ==
    /\ Done("uploadDocument")
    /\ Uploaded = {}
    /\ Len(drivers) = 2
    /\ error = Null
    /\ ret = Resolved

Verifieds == Matching(snap.drivers, call.driverId)

\* C10: verifyDocument on an existing driver overlays status and comments on
\* the entry of the document map whose key equals documentId: afterwards that
\* entry has the given status and comments, its other fields, the entries
\* under every other key and every other driver are unchanged.
C10_VerifyOverlaysByKey ==
    (Done("verifyDocument") /\ Verifieds # {}) =>
        /\ Len(drivers) = Len(snap.drivers)
        /\ \A i \in Positions(snap.drivers) \ Verifieds : drivers[i] = snap.drivers[i]
        /\ \A i \in Verifieds :
              LET old == snap.drivers[i].documents
                  new == drivers[i].documents
                  key == call.documentId
                  overlaid == {"status", "comments"}
              IN
              /\ DOMAIN new = DOMAIN old \cup {key}
              /\ new[key].status = call.status
              /\ new[key].comments = call.comments
              /\ IF key \in DOMAIN old
                 THEN /\ DOMAIN new[key] = DOMAIN old[key] \cup overlaid
                      /\ \A f \in DOMAIN old[key] \ overlaid : new[key][f] = old[key][f]
                 ELSE DOMAIN new[key] = overlaid
              /\ \A k \in DOMAIN old \ {key} : new[k] = old[k]

C10_Witness ==
    /\ Done("verifyDocument")
    /\ call.documentId = "license"
    /\ call.status = "rejected"
    /\ \E i \in Verifieds :
          /\ snap.drivers[i].documents["license"].status = "verified"
          /\ drivers[i].documents["license"].status = "rejected"
          /\ drivers[i].documents["license"].comments = "blurred"
          /\ drivers[i].documents["license"].number = "DL123456"

\* seq holds exactly the records of ds at the positions in keep, each once,
\* in the order of ds
IsSelection(seq, ds, keep) ==
    /\ Len(seq) = Cardinality(keep)
    /\ \A i \in keep : seq[Cardinality({j \in keep : j <= i})] = ds[i]

HasPending(driver) ==
    \E k \in DOMAIN driver.documents : driver.documents[k].status = "pending"

\* C11: pendingVerifications() returns exactly the drivers of the collection
\* that have at least one document-map entry with status 'pending', in
\* collection order; a driver just created by addDriver is not in the result,
\* and a driver is in the result right after uploadDocument on it.
C11_PendingVerificationsExact ==
    /\ IsSelection(getPendingVerifications, drivers,
                   {i \in Positions(drivers) : HasPending(drivers[i])})
    /\ Done("addDriver") =>
          \A n \in Positions(getPendingVerifications) :
              getPendingVerifications[n] # ret.val
    /\ Done("uploadDocument") =>
          \A i \in Matching(drivers, call.driverId) :
              \E n \in Positions(getPendingVerifications) :
                  getPendingVerifications[n] = drivers[i]

C11_Witness ==
    /\ Done("uploadDocument")
    /\ Len(drivers) = 2
    /\ Matching(drivers, call.driverId) = {2}
    /\ DOMAIN snap.drivers[2].documents = {}
    /\ getPendingVerifications = << drivers[2] >>

\* obj.key as a caller reads it: undefined when the key is absent
Read(obj, key) == IF key \in DOMAIN obj THEN obj[key] ELSE Undefined

\* The operation changed, in the records with id, at most the field named
\* field; every other record, loading and error are as they were at the call
OnlyFieldChanged(id, field) ==
    /\ loading = snap.loading
    /\ error = snap.error
    /\ ret = Resolved
    /\ Len(drivers) = Len(snap.drivers)
    /\ \A i \in Positions(snap.drivers) :
          IF snap.drivers[i].id = id
          THEN /\ DOMAIN drivers[i] = DOMAIN snap.drivers[i] \cup {field}
               /\ \A f \in DOMAIN snap.drivers[i] \ {field} :
                     drivers[i][f] = snap.drivers[i][f]
          ELSE drivers[i] = snap.drivers[i]

\* C12: after assignVehicle(d, v) getDriver(d).vehicleId = v; after
\* unassignVehicle(d) getDriver(d).vehicleId reads as absent; both operations
\* change no other field of that driver (updatedAt included), no other driver,
\* neither loading nor error, and with an unknown driverId change nothing.
C12_AssignUnassignVehicle ==
    /\ Done("assignVehicle") =>
          /\ OnlyFieldChanged(call.driverId, "vehicleId")
          /\ Matching(snap.drivers, call.driverId) # {} =>
                Read(getDriver(call.driverId), "vehicleId") = call.vehicleId
          /\ Matching(snap.drivers, call.driverId) = {} => drivers = snap.drivers
    /\ Done("unassignVehicle") =>
          /\ OnlyFieldChanged(call.driverId, "vehicleId")
          /\ Matching(snap.drivers, call.driverId) # {} =>
                Read(getDriver(call.driverId), "vehicleId") = Undefined
          /\ Matching(snap.drivers, call.driverId) = {} => drivers = snap.drivers

C12_Witness ==
    /\ Done("unassignVehicle")
    /\ call.driverId = "1"
    /\ nops = 2
    /\ Len(snap.drivers) = 1
    /\ snap.drivers[1].id = "1"
    /\ Read(snap.drivers[1], "vehicleId") = "V9"
    /\ Read(getDriver("1"), "vehicleId") = Undefined
    /\ getDriver("1").updatedAt = T0
    /\ getDriver("1").status = "active"

\* C13: updateOnboardingStatus(driverId, s) enforces no transition legality:
\* for every existing driver, current onboarding status and target s
\* ('completed' back to 'pending' included) the call is not rejected, sets
\* onboardingStatus to s and leaves status and all other fields unchanged.
C13_OnboardingUnconstrained ==
    Done("updateOnboardingStatus") =>
        /\ OnlyFieldChanged(call.driverId, "onboardingStatus")
        /\ \A i \in Matching(snap.drivers, call.driverId) :
              /\ drivers[i].onboardingStatus = call.status
              /\ drivers[i].status = snap.drivers[i].status

C13_Witness ==
    /\ Done("updateOnboardingStatus")
    /\ call.status = "pending"
    /\ \E i \in Matching(snap.drivers, call.driverId) :
          /\ snap.drivers[i].onboardingStatus = "completed"
          /\ drivers[i].onboardingStatus = "pending"
          /\ drivers[i].status = "active"
    /\ ret = Resolved
    /\ error = Null

\* C14: in every reachable state and for every vendor id v, byVendor(v)
\* returns exactly the records whose vendorId equals v, each once, in their
\* original relative order, and active() returns exactly the records whose
\* status is 'active'.
C14_FilteredViewsExact ==
    /\ \A v \in VendorIds :
          IsSelection(getDriversByVendor(v), drivers,
                      {i \in Positions(drivers) : drivers[i].vendorId = v})
    /\ IsSelection(getActiveDrivers, drivers,
                   {i \in Positions(drivers) : drivers[i].status = "active"})

C14_Witness ==
    /\ pc = "idle"
    /\ Len(drivers) = 2
    /\ getDriversByVendor("2") = drivers
    /\ getDriversByVendor("3") = <<>>
    /\ getActiveDrivers = << drivers[1] >>

\* C15: loading is true only while addDriver, updateDriver or uploadDocument
\* is executing: it is set to true when such an operation begins, and whenever
\* no operation is in progress (after a success or a failure) it is false.
C15_LoadingOnlyWhileRunning ==
    /\ loading => pc \in {"addDriver", "updateDriver", "uploadDocument"}
    /\ pc \in {"addDriver", "updateDriver", "uploadDocument"} => loading
    /\ pc = "idle" => ~loading

C15_Witness ==
    /\ pc = "uploadDocument"
    /\ loading
    /\ ~snap.loading
    /\ ret.kind = "throw"
    /\ error # Null

\* The collections that applying the operation c alone to the collection ds
\* can give, the clock being read between c.at and now
SequentialResults(c, ds) ==
    LET times == c.at..now IN
    CASE c.op = "addDriver" ->
           {Append(ds, NewDriver(c.driverData, id, t1, t2)) :
               id \in GenIds, t1 \in times, t2 \in times}
      [] c.op = "updateDriver" ->
           {[i \in 1..Len(ds) |->
               IF ds[i].id = c.id THEN UpdatedDriver(ds[i], c.updates, ts[i]) ELSE ds[i]] :
               ts \in [Matching(ds, c.id) -> times]}
      [] c.op = "uploadDocument" ->
           {[i \in 1..Len(ds) |->
               IF ds[i].id = c.driverId
               THEN WithDocument(ds[i], c.document, pick[1], pick[2][i])
               ELSE ds[i]] :
               pick \in GenDocIds \X [Matching(ds, c.driverId) -> times]}
      [] c.op = "deleteDriver" -> {Remaining(ds, c.id)}
      [] c.op = "verifyDocument" ->
           {[i \in 1..Len(ds) |->
               IF ds[i].id = c.driverId
               THEN Verified(ds[i], c.documentId, c.status, c.comments)
               ELSE ds[i]]}
      [] c.op = "assignVehicle" ->
           {[i \in 1..Len(ds) |->
               IF ds[i].id = c.driverId
               THEN Spread(ds[i], [vehicleId |-> c.vehicleId]) ELSE ds[i]]}
      [] c.op = "unassignVehicle" ->
           {[i \in 1..Len(ds) |->
               IF ds[i].id = c.driverId
               THEN Spread(ds[i], [vehicleId |-> Undefined]) ELSE ds[i]]}
      [] c.op = "updateOnboardingStatus" ->
           {[i \in 1..Len(ds) |->
               IF ds[i].id = c.driverId
               THEN Spread(ds[i], [onboardingStatus |-> c.status]) ELSE ds[i]]}
      [] OTHER -> {ds}

\* C16: store operations are linearized in issue order: each operation reads
\* the snapshot the previous one published (no other snapshot of the
\* collection is published while it runs) and publishes its own, so the
\* collection after it is the result of applying it alone to the collection
\* the previous operation left; no update is lost.
C16_LinearizedInIssueOrder ==
    /\ pc # "idle" => drivers = snap.drivers
    /\ pc = "idle" => drivers \in SequentialResults(call, snap.drivers)

C16_Witness ==
    /\ Done("uploadDocument")
    /\ nops = 3
    /\ Len(drivers) = 2
    /\ drivers[1].name = "X"
    /\ "insurance" \in DOMAIN drivers[2].documents
    /\ "insurance" \notin DOMAIN drivers[1].documents

\* C17: assignVehicle checks no vehicle-side exclusivity: when another driver
\* already holds the vehicle v, assignVehicle(b, v) is accepted, b gets v and
\* the other driver keeps v.
C17_NoVehicleExclusivity ==
    Done("assignVehicle") =>
        /\ ret = Resolved
        /\ error = snap.error
        /\ Len(drivers) = Len(snap.drivers)
        /\ \A i \in Positions(snap.drivers) :
              IF snap.drivers[i].id = call.driverId
              THEN Read(drivers[i], "vehicleId") = call.vehicleId
              ELSE Read(drivers[i], "vehicleId") = Read(snap.drivers[i], "vehicleId")

C17_Witness ==
    /\ Done("assignVehicle")
    /\ nops = 3
    /\ Len(drivers) = 2
    /\ call.driverId = drivers[2].id
    /\ drivers[1].id = "1"
    /\ drivers[2].id # "1"
    /\ "vehicleId" \notin DOMAIN snap.drivers[2]
    /\ Read(snap.drivers[1], "vehicleId") = "V9"
    /\ Read(drivers[1], "vehicleId") = "V9"
    /\ Read(drivers[2], "vehicleId") = "V9"

\* C18: in every reachable state every entry of every driver's document map
\* is stored under the key equal to the entry's own type field.
C18_DocumentsKeyedByType ==
    \A i \in Positions(drivers) :
        \A k \in DOMAIN drivers[i].documents :
            /\ "type" \in DOMAIN drivers[i].documents[k]
            /\ drivers[i].documents[k].type = k

\* C19: the error field is sticky: it is null initially, becomes non-null
\* only when addDriver, updateDriver or uploadDocument fails, and once
\* non-null no later operation resets it to null.
C19_ErrorSticky ==
    /\ nops = 0 => error = Null
    /\ snap.error # Null => error # Null
    /\ (error # Null /\ snap.error = Null) =>
          /\ call.op \in {"addDriver", "updateDriver", "uploadDocument"}
          /\ pc = "idle"
          /\ ret.kind = "throw"

C19_Witness ==
    /\ Done("updateDriver")
    /\ ret.kind = "value"
    /\ snap.error # Null
    /\ error # Null

\* The fields a call may write in the records it matches
Written(c) ==
    CASE c.op = "updateDriver" -> DOMAIN c.updates \cup {"updatedAt"}
      [] c.op = "uploadDocument" -> {"documents", "updatedAt"}
      [] c.op = "verifyDocument" -> {"documents"}
      [] c.op \in {"assignVehicle", "unassignVehicle"} -> {"vehicleId"}
      [] c.op = "updateOnboardingStatus" -> {"onboardingStatus"}
      [] OTHER -> {}

\* C20: only addDriver lengthens the collection (by one, at the end) and only
\* deleteDriver shortens it; the other operations keep the number of records
\* and the position of every record, so the surviving records are in their
\* creation order in every reachable state.
C20_OnlyAddAndDeleteResize ==
    /\ pc # "idle" => Len(drivers) = Len(snap.drivers)
    /\ Done("addDriver") =>
          /\ Len(drivers) = Len(snap.drivers) + 1
          /\ SubSeq(drivers, 1, Len(snap.drivers)) = snap.drivers
    /\ Done("deleteDriver") =>
          \E keep \in SUBSET Positions(snap.drivers) :
              IsSelection(drivers, snap.drivers, keep)
    /\ (pc = "idle" /\ call.op \notin {"addDriver", "deleteDriver"}) =>
          /\ Len(drivers) = Len(snap.drivers)
          /\ \A i \in Positions(snap.drivers) :
                \A f \in DOMAIN snap.drivers[i] \ Written(call) :
                    f \in DOMAIN drivers[i] /\ drivers[i][f] = snap.drivers[i][f]
    /\ \A i, j \in Positions(drivers) :
          i < j => drivers[i].createdAt <= drivers[j].createdAt

C20_Witness ==
    /\ Done("updateDriver")
    /\ nops = 3
    /\ Len(drivers) = 1
    /\ drivers[1].id = "a"
    /\ drivers[1].createdAt > T0
    /\ drivers[1].updatedAt >= drivers[1].createdAt
    /\ ret.kind = "value"

====
